---------------------------- MODULE Spec2Model ----------------------------
(***************************************************************************)
(* Server-sent-event streaming of LLM output: the /stream handler of      *)
(* src/main.js and the stream form of public/chat.js.                     *)
(*                                                                         *)
(* Text is a sequence of one-character strings.  Every session s owns a   *)
(* producer (the LangChain stream), a response `res` (headers, body,      *)
(* ended) and, in the browser, an EventSource with the closure variables  *)
(* timeStart and accumulatedText.  container and elapsedTimeText are the  *)
(* two module-level DOM elements shared by every session of the page.     *)
(***************************************************************************)
EXTENDS Integers, Sequences, FiniteSets, TLC

VARIABLES
    producer,        \* per session: what llm.stream(messages) will do
    spc,             \* per session: where the /stream handler is suspended
    pos,             \* per session: chunks the for-await loop has taken
    res,             \* per session: the response object of the handler
    dropped,         \* per session: the connection broke under the client
    eventSource,     \* per session: "none", "active" or "closed"
    dispatched,      \* per session: message events already handled
    timeStart,       \* per session: closure variable of the submit handler
    accumulatedText, \* per session: closure variable of the submit handler
    container,       \* #response-container innerHTML, shared by the page
    elapsedTimeText, \* #elapsed-time innerText, shared by the page
    now,             \* the last value performance.now() returned
    recorded,        \* per session: elapsed values its handler displayed
    firstAt,         \* per session: clock when its first frame was handled
    consoleErrors,   \* per session: console.error calls of onerror
    lastSubmit       \* the session of the latest submit, 0 before the first

vars == << producer, spc, pos, res, dropped, eventSource, dispatched,
           timeStart, accumulatedText, container, elapsedTimeText, now,
           recorded, firstAt, consoleErrors, lastSubmit >>

serverVars == << spc, pos, res >>
clientVars == << eventSource, dispatched, timeStart, accumulatedText,
                 container, elapsedTimeText, now, recorded, firstAt,
                 consoleErrors, lastSubmit >>

-----------------------------------------------------------------------------
(* Bounds *)

MaxChunks == 2       \* longest enumerated producer sequence, one session
MaxChunksTwo == 1    \* longest producer sequence when two sessions run
MaxTime == 2         \* clock readings are 0..MaxTime
TicksPerMs == 2      \* clock readings per millisecond

Sessions == { 1, 2 }
Solo == { 1 }

-----------------------------------------------------------------------------
(* Text *)

QUOTE == "\""
BACKSLASH == "\\"
NL == "\n"
SPACE == " "

RECURSIVE Concat(_)
Concat(seqs) ==
    IF seqs = << >> THEN << >> ELSE Head(seqs) \o Concat(Tail(seqs))

\* JSON.stringify of one character of a string.
EscapeChar(c) ==
    IF c = QUOTE THEN << BACKSLASH, QUOTE >>
    ELSE IF c = BACKSLASH THEN << BACKSLASH, BACKSLASH >>
    ELSE IF c = NL THEN << BACKSLASH, "n" >>
    ELSE << c >>

\* JSON.stringify(content) for a string content.
JSONStringify(content) ==
    << QUOTE >> \o Concat([i \in 1..Len(content) |-> EscapeChar(content[i])])
                \o << QUOTE >>

DataPrefix == << "d", "a", "t", "a", ":", SPACE >>

\* `data: ${JSON.stringify(content)}\n\n`
Frame(content) == DataPrefix \o JSONStringify(content) \o << NL, NL >>

\* Mutant of Diagnostic: the diagnostic terminated as an event.
DiagnosticTerminated ==
    DataPrefix \o
    << "a", "n", SPACE, "e", "r", "r", "o", "r", SPACE, "o", "c", "c",
       "u", "r", "r", "e", "d", SPACE, "w", "h", "i", "l", "e", SPACE,
       "s", "t", "r", "e", "a", "m", "i", "n", "g", SPACE, "r", "e",
       "s", "p", "o", "n", "s", "e", ".", NL, NL >>

\* "data: an error occurred while streaming response."
DiagnosticText ==
    << "a", "n", SPACE, "e", "r", "r", "o", "r", SPACE, "o", "c", "c",
       "u", "r", "r", "e", "d", SPACE, "w", "h", "i", "l", "e", SPACE,
       "s", "t", "r", "e", "a", "m", "i", "n", "g", SPACE, "r", "e",
       "s", "p", "o", "n", "s", "e", "." >>

Diagnostic == DataPrefix \o DiagnosticText

-----------------------------------------------------------------------------
(* The browser's event-stream interpretation of the response body, which  *)
(* `new EventSource(...)` runs on the bytes received.                     *)

\* The complete lines of a byte stream; an unterminated last line is not one.
RECURSIVE SplitLines(_, _, _, _)
SplitLines(str, i, cur, acc) ==
    IF i > Len(str) THEN acc
    ELSE IF str[i] = NL THEN SplitLines(str, i + 1, << >>, Append(acc, cur))
    ELSE SplitLines(str, i + 1, Append(cur, str[i]), acc)

\* Position of the first colon of a line, 0 when it has none.
ColonAt(line) ==
    IF \E i \in 1..Len(line) : line[i] = ":"
    THEN CHOOSE i \in 1..Len(line) :
             line[i] = ":" /\ \A j \in 1..(i - 1) : line[j] # ":"
    ELSE 0

FieldName(line) ==
    IF ColonAt(line) = 0 THEN line ELSE SubSeq(line, 1, ColonAt(line) - 1)

\* The field value: what follows the colon, less one leading space.
FieldValue(line) ==
    LET c == ColonAt(line)
        v == IF c = 0 THEN << >> ELSE SubSeq(line, c + 1, Len(line))
    IN  IF v # << >> /\ v[1] = SPACE THEN Tail(v) ELSE v

\* The data of the message events a sequence of lines dispatches: a data
\* line appends its value and a line feed to the data buffer, a blank line
\* dispatches the buffer less its last line feed unless it is empty.
RECURSIVE DispatchLines(_, _, _, _)
DispatchLines(lines, i, data, acc) ==
    IF i > Len(lines) THEN acc
    ELSE LET line == lines[i] IN
         IF line = << >>
         THEN IF data = << >>
              THEN DispatchLines(lines, i + 1, << >>, acc)
              ELSE DispatchLines(lines, i + 1, << >>,
                                 Append(acc, SubSeq(data, 1, Len(data) - 1)))
         ELSE IF ColonAt(line) = 1
         THEN DispatchLines(lines, i + 1, data, acc)
         ELSE IF FieldName(line) = << "d", "a", "t", "a" >>
         THEN DispatchLines(lines, i + 1,
                            data \o FieldValue(line) \o << NL >>, acc)
         ELSE DispatchLines(lines, i + 1, data, acc)

\* event.data of every message event the bytes received so far give rise to.
SSEParse(bytes) == DispatchLines(SplitLines(bytes, 1, << >>, << >>), 1, << >>, << >>)

-----------------------------------------------------------------------------
(* cleanText of public/chat.js *)

\* .replace(/^"/, '')
StripLeadingQuote(text) ==
    IF text # << >> /\ text[1] = QUOTE THEN Tail(text) ELSE text

\* Mutant of RemoveDoubledQuotes: the regular expression without its g flag.
RECURSIVE RemoveFirstDoubledQuotes(_)
RemoveFirstDoubledQuotes(text) ==
    IF Len(text) < 2 THEN text
    ELSE IF text[1] = QUOTE /\ text[2] = QUOTE
    THEN SubSeq(text, 3, Len(text))
    ELSE << text[1] >> \o RemoveFirstDoubledQuotes(Tail(text))

\* .replace(/""/g, ''): leftmost non-overlapping pairs, one pass.
RECURSIVE RemoveDoubledQuotes(_)
RemoveDoubledQuotes(text) ==
    IF Len(text) < 2 THEN text
    ELSE IF text[1] = QUOTE /\ text[2] = QUOTE
    THEN RemoveDoubledQuotes(SubSeq(text, 3, Len(text)))
    ELSE << text[1] >> \o RemoveDoubledQuotes(Tail(text))

\* .replace(/"$/, '')
StripTrailingQuote(text) ==
    IF text # << >> /\ text[Len(text)] = QUOTE
    THEN SubSeq(text, 1, Len(text) - 1) ELSE text

IsWhitespace(c) == c \in { SPACE, NL }

\* .trim()
RECURSIVE TrimStart(_)
TrimStart(text) ==
    IF text # << >> /\ IsWhitespace(text[1]) THEN TrimStart(Tail(text)) ELSE text

RECURSIVE TrimEnd(_)
TrimEnd(text) ==
    IF text # << >> /\ IsWhitespace(text[Len(text)])
    THEN TrimEnd(SubSeq(text, 1, Len(text) - 1)) ELSE text

Trim(text) == TrimEnd(TrimStart(text))

cleanText(text) ==
    Trim(StripTrailingQuote(RemoveDoubledQuotes(StripLeadingQuote(text))))

-----------------------------------------------------------------------------
(* The producer: llm.stream(messages) and the chunks it yields *)

Chunk(text) == [defined |-> TRUE, content |-> text]
UndefinedChunk == [defined |-> FALSE, content |-> << >>]

\* Mutant of Falsy: only undefined content is skipped.
FalsyUndefinedOnly(chunk) == ~chunk.defined

\* !content for a chunk's content: undefined and "" are falsy.
Falsy(chunk) == ~chunk.defined \/ chunk.content = << >>

FragmentPool ==
    { << >>, << "a" >>, << SPACE >>, << QUOTE >>, << BACKSLASH >>, << NL >> }

ChunkPool == { Chunk(f) : f \in FragmentPool } \cup { UndefinedChunk }

SeqsUpTo(S, n) == UNION { [1..k -> S] : k \in 0..n }

\* "a", "", "b", undefined content, "c"
FilterExample ==
    << Chunk(<< "a" >>), Chunk(<< >>), Chunk(<< "b" >>), UndefinedChunk,
       Chunk(<< "c" >>) >>

\* "Hel", "lo, wor", "ld"
HelloExample ==
    << Chunk(<< "H", "e", "l" >>),
       Chunk(<< "l", "o", ",", SPACE, "w", "o", "r" >>),
       Chunk(<< "l", "d" >>) >>

\* A producer: the chunks it yields, then how it finishes.  "reject": the
\* promise of llm.stream rejects; "throw": the iteration throws after the
\* chunks; "complete": the iteration is exhausted.
Script(chunks, outcome) == [chunks |-> chunks, outcome |-> outcome]

Scripts ==
    { Script(c, o) : c \in SeqsUpTo(ChunkPool, MaxChunks) \cup
                           { FilterExample, HelloExample },
                     o \in { "complete", "throw" } }
    \cup { Script(<< >>, "reject") }

ChunkPoolTwo(s) ==
    { Chunk(<< IF s = 1 THEN "a" ELSE "b" >>), Chunk(<< >>) }

ScriptsTwo(s) ==
    { Script(c, o) : c \in SeqsUpTo(ChunkPoolTwo(s), MaxChunksTwo),
                     o \in { "complete", "throw" } }
    \cup { Script(<< >>, "reject") }

-----------------------------------------------------------------------------
(* The response object `res` of the /stream handler *)

ContentType == << "Content-Type", "text/event-stream" >>
CacheControl == << "Cache-Control", "no-cache" >>
Connection == << "Connection", "keep-alive" >>

NewResponse ==
    [statusCode |-> 200, headers |-> { }, headersSent |-> FALSE,
     wireHeaders |-> { }, body |-> << >>, ended |-> 0, lateWrites |-> 0]

\* res.setHeader(name, value).  The handler calls it only before its first
\* write; once the header block has gone out nothing changes it.
setHeader(r, header) ==
    IF r.headersSent THEN r
    ELSE [r EXCEPT !.headers =
              { h \in @ : h[1] # header[1] } \cup { header }]

\* The header block goes out with the first write or with end.
flushHeaders(r) ==
    IF r.headersSent THEN r
    ELSE [r EXCEPT !.headersSent = TRUE, !.wireHeaders = r.headers]

\* res.write(data): sent unless the response has ended (write after end).
write(r, data) ==
    IF r.ended > 0 THEN [r EXCEPT !.lateWrites = @ + 1]
    ELSE [flushHeaders(r) EXCEPT !.body = Append(@, data)]

\* Mutant of end: the connection is never closed.
endForgotten(r) == flushHeaders(r)

\* res.end()
end(r) == [flushHeaders(r) EXCEPT !.ended = @ + 1]

\* The bytes of the body, as the client receives them.
Bytes(r) == Concat(r.body)

-----------------------------------------------------------------------------
(* app.get('/stream', ...) of src/main.js *)

\* The three res.setHeader calls.
SetSSEHeaders(r) ==
    setHeader(setHeader(setHeader(r, ContentType), CacheControl), Connection)

\* Mutant of DrainChunk: the content is written without JSON.stringify.
DrainChunkRaw(r, chunk) ==
    IF ~chunk.defined \/ chunk.content = << >> THEN r
    ELSE write(r, DataPrefix \o chunk.content \o << NL, NL >>)

\* Mutant of DrainChunk: a frame is batched into the write before it.
DrainChunkBatched(r, chunk) ==
    IF ~chunk.defined \/ chunk.content = << >> THEN r
    ELSE IF r.body = << >> THEN write(r, Frame(chunk.content))
    ELSE [r EXCEPT !.body[Len(r.body)] = @ \o Frame(chunk.content)]

\* One turn of the body of the for-await loop.
DrainChunk(r, chunk) ==
    IF Falsy(chunk) THEN r ELSE write(r, Frame(chunk.content))

\* Mutant of CatchBlock: the connection is closed without the diagnostic.
CatchBlockSilent(r) == end(r)

\* Mutant of CatchBlock: the connection is closed before the diagnostic.
CatchBlockEndFirst(r) == write(end(r), Diagnostic)

\* The catch block.
CatchBlock(r) == end(write(r, Diagnostic))

\* The request arrives; the handler runs up to `await llm.stream(messages)`.
StreamRequest(s) ==
    /\ eventSource[s] = "active"
    /\ ~dropped[s]
    /\ spc[s] = "idle"
    /\ spc' = [spc EXCEPT ![s] = "awaitStream"]
    /\ UNCHANGED << producer, pos, res, dropped >>
    /\ UNCHANGED clientVars

\* llm.stream resolves: the headers are set and the loop asks for a chunk.
StreamResolved(s) ==
    /\ spc[s] = "awaitStream"
    /\ producer[s].outcome # "reject"
    /\ res' = [res EXCEPT ![s] = SetSSEHeaders(@)]
    /\ spc' = [spc EXCEPT ![s] = "awaitNext"]
    /\ UNCHANGED << producer, pos, dropped >>
    /\ UNCHANGED clientVars

\* llm.stream rejects: the catch block runs.
StreamRejected(s) ==
    /\ spc[s] = "awaitStream"
    /\ producer[s].outcome = "reject"
    /\ res' = [res EXCEPT ![s] = CatchBlock(@)]
    /\ spc' = [spc EXCEPT ![s] = "done"]
    /\ UNCHANGED << producer, pos, dropped >>
    /\ UNCHANGED clientVars

\* The producer yields its next chunk and the loop body runs on it.
NextChunk(s) ==
    /\ spc[s] = "awaitNext"
    /\ pos[s] < Len(producer[s].chunks)
    /\ pos' = [pos EXCEPT ![s] = @ + 1]
    /\ res' = [res EXCEPT ![s] = DrainChunk(@, producer[s].chunks[pos[s] + 1])]
    /\ UNCHANGED << producer, spc, dropped >>
    /\ UNCHANGED clientVars

\* The producer is exhausted: the loop ends and res.end() runs.
NextDone(s) ==
    /\ spc[s] = "awaitNext"
    /\ pos[s] = Len(producer[s].chunks)
    /\ producer[s].outcome = "complete"
    /\ res' = [res EXCEPT ![s] = end(@)]
    /\ spc' = [spc EXCEPT ![s] = "done"]
    /\ UNCHANGED << producer, pos, dropped >>
    /\ UNCHANGED clientVars

\* The producer throws in the loop: the catch block runs.
NextThrows(s) ==
    /\ spc[s] = "awaitNext"
    /\ pos[s] = Len(producer[s].chunks)
    /\ producer[s].outcome = "throw"
    /\ res' = [res EXCEPT ![s] = CatchBlock(@)]
    /\ spc' = [spc EXCEPT ![s] = "done"]
    /\ UNCHANGED << producer, pos, dropped >>
    /\ UNCHANGED clientVars

-----------------------------------------------------------------------------
(* The /normal handler of src/main.js *)

\* The Content-Type res.send gives a string body when none was set.
HtmlContentType == << "Content-Type", "text/html; charset=utf-8" >>

\* res.send(body) for a string: one body, written whole, then the end.
send(r, body) ==
    IF HtmlContentType[1] \in { h[1] : h \in r.headers }
    THEN end(write(r, body))
    ELSE end(write(setHeader(r, HtmlContentType), body))

NoAnswerText ==
    << "N", "o", SPACE, "a", "n", "s", "w", "e", "r", SPACE, "w", "a",
       "s", SPACE, "g", "e", "n", "e", "r", "a", "t", "e", "d", "." >>

NormalDiagnosticText ==
    << "A", "n", SPACE, "e", "r", "r", "o", "r", SPACE, "o", "c", "c",
       "u", "r", "r", "e", "d", SPACE, "w", "h", "i", "l", "e", SPACE,
       "g", "e", "n", "e", "r", "a", "t", "i", "n", "g", SPACE, "t",
       "h", "e", SPACE, "s", "u", "m", "m", "a", "r", "y", "." >>

RECURSIVE Materialize(_)
\* The content of the message llm.invoke resolves to: the whole output of
\* the producer in one text.
Materialize(chunks) ==
    IF chunks = << >> THEN << >>
    ELSE (IF Head(chunks).defined THEN Head(chunks).content ELSE << >>)
         \o Materialize(Tail(chunks))

\* The message llm.invoke resolves to.
Response(chunks) == [content |-> Materialize(chunks)]

\* "content" in response ? response.content : "No answer was generated."
NormalAnswer(response) ==
    IF "content" \in DOMAIN response THEN response.content ELSE NoAnswerText

\* Mutant of NormalCatch: the failure answered with a status of its own.
NormalCatchStatus(r) ==
    send([r EXCEPT !.statusCode = 500], NormalDiagnosticText)

\* The catch block of /normal.
NormalCatch(r) == send(r, NormalDiagnosticText)

\* The request arrives; the handler runs up to `await llm.invoke(messages)`.
NormalRequest(s) ==
    /\ spc[s] = "idle"
    /\ spc' = [spc EXCEPT ![s] = "awaitInvoke"]
    /\ UNCHANGED << producer, pos, res, dropped >>
    /\ UNCHANGED clientVars

\* llm.invoke resolves with the whole output: the answer is sent.
InvokeResolved(s) ==
    /\ spc[s] = "awaitInvoke"
    /\ producer[s].outcome = "complete"
    /\ pos' = [pos EXCEPT ![s] = Len(producer[s].chunks)]
    /\ res' = [res EXCEPT
           ![s] = send(@, NormalAnswer(Response(producer[s].chunks)))]
    /\ spc' = [spc EXCEPT ![s] = "done"]
    /\ UNCHANGED << producer, dropped >>
    /\ UNCHANGED clientVars

\* llm.invoke rejects, at once or after part of the output: the catch
\* block runs.
InvokeRejected(s) ==
    /\ spc[s] = "awaitInvoke"
    /\ producer[s].outcome \in { "throw", "reject" }
    /\ pos' = [pos EXCEPT ![s] = Len(producer[s].chunks)]
    /\ res' = [res EXCEPT ![s] = NormalCatch(@)]
    /\ spc' = [spc EXCEPT ![s] = "done"]
    /\ UNCHANGED << producer, dropped >>
    /\ UNCHANGED clientVars

-----------------------------------------------------------------------------
(* The stream form of public/chat.js *)

LoadingHTML == << "<p class=\"text-sm animate-bounce\">Generating response........" >>

\* showLoading(loading)
showLoading(loading) == IF loading THEN LoadingHTML ELSE << >>

\* displayElapsedTime(startTime, endTime): Math.floor(endTime - startTime),
\* the clock counting TicksPerMs readings to the millisecond.
Elapsed(startTime, endTime) == (endTime - startTime) \div TicksPerMs

\* The text of #elapsed-time: empty, or the message with the elapsed value.
NoElapsedText == << >>
ElapsedText(elapsed) == << elapsed >>

\* The EventSource accepts the response only as text/event-stream.
ContentTypeOK(r) == ContentType \in r.wireHeaders

\* The message events the response has given rise to so far.
Events(r) == IF ContentTypeOK(r) THEN SSEParse(Bytes(r)) ELSE << >>

\* Mutant of IsFirstChunk: every message counts as the first.
IsFirstChunkAlways(text) == TRUE

\* The `if (accumulatedText === "")` of onmessage.
IsFirstChunk(text) == text = << >>

\* Mutant of AppendData: `=` in place of `+=`.
AppendDataAssign(text, data) == data

\* accumulatedText += event.data
AppendData(text, data) == text \o data

\* Mutant of Scope: the closure variables declared once for the page.
ScopeShared(s) == 1

\* The activation of the submit handler whose `const timeStart` and
\* `let accumulatedText` the callbacks of EventSource s close over: its own.
Scope(s) == s

\* The submit handler of #stream-form, up to and including new EventSource.
Submit(s, t) ==
    /\ eventSource[s] = "none"
    /\ t \in now..MaxTime
    /\ container' = showLoading(TRUE)
    /\ elapsedTimeText' = NoElapsedText
    /\ now' = t
    /\ timeStart' = [timeStart EXCEPT ![Scope(s)] = t]
    /\ eventSource' = [eventSource EXCEPT ![s] = "active"]
    /\ accumulatedText' = [accumulatedText EXCEPT ![Scope(s)] = << >>]
    /\ lastSubmit' = s
    /\ UNCHANGED << producer, dropped, dispatched, recorded, firstAt,
                    consoleErrors >>
    /\ UNCHANGED serverVars

\* eventSource.onmessage for the next message event of session s.
OnMessage(s, t) ==
    /\ eventSource[s] = "active"
    /\ ~dropped[s]
    /\ dispatched[s] < Len(Events(res[s]))
    /\ LET data == Events(res[s])[dispatched[s] + 1]
           text == AppendData(accumulatedText[Scope(s)], data)
       IN  /\ IF IsFirstChunk(accumulatedText[Scope(s)])
              THEN /\ t \in now..MaxTime
                   /\ elapsedTimeText' =
                          ElapsedText(Elapsed(timeStart[Scope(s)], t))
                   /\ recorded' = [recorded EXCEPT
                          ![s] = Append(@, Elapsed(timeStart[Scope(s)], t))]
              ELSE /\ t = now
                   /\ UNCHANGED << elapsedTimeText, recorded >>
           /\ now' = t
           /\ firstAt' = [firstAt EXCEPT
                  ![s] = IF dispatched[s] = 0 THEN t ELSE @]
           /\ accumulatedText' = [accumulatedText EXCEPT ![Scope(s)] = text]
           /\ container' = cleanText(text)
    /\ dispatched' = [dispatched EXCEPT ![s] = @ + 1]
    /\ UNCHANGED << producer, dropped, eventSource, timeStart,
                    consoleErrors, lastSubmit >>
    /\ UNCHANGED serverVars

\* Mutant of close: the EventSource is left as it was.
closeForgotten(state) == state

\* eventSource.close(): whatever its state, the EventSource is closed.
close(state) == "closed"

\* The EventSource reports an error: the connection broke, the response is
\* not an event stream, or the body ended and every event was dispatched.
ErrorEvent(s) ==
    \/ dropped[s]
    \/ res[s].headersSent /\ ~ContentTypeOK(res[s])
    \/ res[s].ended > 0 /\ dispatched[s] = Len(Events(res[s]))

\* eventSource.onerror: close the EventSource and log.
OnError(s) ==
    /\ eventSource[s] = "active"
    /\ ErrorEvent(s)
    /\ eventSource' = [eventSource EXCEPT ![s] = close(@)]
    /\ consoleErrors' = [consoleErrors EXCEPT ![s] = @ + 1]
    /\ UNCHANGED << producer, dropped, dispatched, timeStart,
                    accumulatedText, container, elapsedTimeText, now,
                    recorded, firstAt, lastSubmit >>
    /\ UNCHANGED serverVars

\* The connection breaks (network loss, navigation) after the request
\* reached the server.
Drop(s) ==
    /\ eventSource[s] = "active"
    /\ spc[s] # "idle"
    /\ ~dropped[s]
    /\ dropped' = [dropped EXCEPT ![s] = TRUE]
    /\ UNCHANGED << producer, eventSource, dispatched, timeStart,
                    accumulatedText, container, elapsedTimeText, now,
                    recorded, firstAt, consoleErrors, lastSubmit >>
    /\ UNCHANGED serverVars

-----------------------------------------------------------------------------
(* Specifications *)

InitCommon ==
    /\ spc = [s \in Sessions |-> "idle"]
    /\ pos = [s \in Sessions |-> 0]
    /\ res = [s \in Sessions |-> NewResponse]
    /\ dropped = [s \in Sessions |-> FALSE]
    /\ eventSource = [s \in Sessions |-> "none"]
    /\ dispatched = [s \in Sessions |-> 0]
    /\ timeStart = [s \in Sessions |-> 0]
    /\ accumulatedText = [s \in Sessions |-> << >>]
    /\ container = << >>
    /\ elapsedTimeText = NoElapsedText
    /\ now = 0
    /\ recorded = [s \in Sessions |-> << >>]
    /\ firstAt = [s \in Sessions |-> 0]
    /\ consoleErrors = [s \in Sessions |-> 0]
    /\ lastSubmit = 0

\* One stream session, its producer drawn from Scripts.
Init ==
    /\ producer \in [Sessions -> Scripts]
    /\ \A s \in Sessions \ Solo : producer[s] = Script(<< >>, "complete")
    /\ InitCommon

ServerStep(s) ==
    \/ StreamRequest(s)
    \/ StreamResolved(s)
    \/ StreamRejected(s)
    \/ NextChunk(s)
    \/ NextDone(s)
    \/ NextThrows(s)

ClientStep(s) ==
    \/ \E t \in 0..MaxTime : OnMessage(s, t)
    \/ OnError(s)

Next ==
    \E s \in Solo :
        \/ \E t \in 0..MaxTime : Submit(s, t)
        \/ ServerStep(s)
        \/ ClientStep(s)
        \/ Drop(s)

Spec == Init /\ [][Next]_vars

\* Two stream sessions side by side, each producer yielding fragments of
\* its own, the clock standing still.
InitTwo ==
    /\ producer \in [Sessions -> UNION { ScriptsTwo(s) : s \in Sessions }]
    /\ \A s \in Sessions : producer[s] \in ScriptsTwo(s)
    /\ InitCommon

NextTwo ==
    \E s \in Sessions :
        \/ Submit(s, now)
        \/ ServerStep(s)
        \/ OnMessage(s, now)
        \/ OnError(s)
        \/ Drop(s)

SpecTwo == InitTwo /\ [][NextTwo]_vars

\* The event loop of the server runs every continuation of a handler whose
\* await has settled, and a producer settles every await: it yields, ends
\* or fails.  Nothing obliges a connection to break.
FairSpec == Spec /\ \A s \in Solo : WF_vars(ServerStep(s))

\* Requests to /normal, one per producer script.
NextNormal ==
    \E s \in Solo :
        \/ NormalRequest(s)
        \/ InvokeResolved(s)
        \/ InvokeRejected(s)

SpecNormal == Init /\ [][NextNormal]_vars

-----------------------------------------------------------------------------
(* Reference notions the properties are stated in *)

\* A chunk carries text: its content is defined and not "".
HasText(chunk) == chunk.defined /\ Len(chunk.content) > 0

\* The chunks the loop of session s has taken from its producer so far.
Yielded(s) == SubSeq(producer[s].chunks, 1, pos[s])

RECURSIVE TextsOf(_)
TextsOf(chunks) ==
    IF chunks = << >> THEN << >>
    ELSE IF HasText(Head(chunks))
         THEN << Head(chunks).content >> \o TextsOf(Tail(chunks))
         ELSE TextsOf(Tail(chunks))

\* The non-empty fragments session s has been yielded, in yield order.
Fragments(s) == TextsOf(Yielded(s))

\* The writes of a response other than the diagnostic.
ContentFrames(r) == SelectSeq(r.body, LAMBDA w : w # Diagnostic)

\* JSON.parse of a JSON string literal; Malformed for anything else.
Malformed == << "malformed" >>

RECURSIVE Unescape(_)
Unescape(t) ==
    IF t = << >> THEN << >>
    ELSE IF t[1] = QUOTE \/ t[1] = NL THEN Malformed
    ELSE IF t[1] # BACKSLASH
    THEN LET rest == Unescape(Tail(t))
         IN  IF rest = Malformed THEN Malformed ELSE << t[1] >> \o rest
    ELSE IF Len(t) < 2 \/ t[2] \notin { QUOTE, BACKSLASH, "n" } THEN Malformed
    ELSE LET rest == Unescape(SubSeq(t, 3, Len(t)))
             c == IF t[2] = "n" THEN NL ELSE t[2]
         IN  IF rest = Malformed THEN Malformed ELSE << c >> \o rest

JSONParse(p) ==
    IF Len(p) < 2 \/ p[1] # QUOTE \/ p[Len(p)] # QUOTE THEN Malformed
    ELSE Unescape(SubSeq(p, 2, Len(p) - 1))

-----------------------------------------------------------------------------
(* Properties *)

\* C1: the content frames written to a session's connection are, in yield
\* order, exactly one frame `data: ` + JSON text + two newlines per non-empty
\* fragment yielded so far, and the payloads the event-stream parser
\* extracts from the body decode, in order, to those fragments.
FramingRoundTrip ==
    \A s \in Sessions :
        LET frags == Fragments(s)
            payloads == SSEParse(Bytes(res[s]))
        IN  /\ ContentFrames(res[s]) =
                   [i \in 1..Len(frags) |->
                        DataPrefix \o JSONStringify(frags[i]) \o << NL, NL >>]
            /\ Len(payloads) = Len(frags)
            /\ \A i \in 1..Len(frags) : JSONParse(payloads[i]) = frags[i]

\* Witness of C1: a drained producer whose two fragments need escaping.
FramingRoundTripWitness ==
    /\ spc[1] = "done"
    /\ Fragments(1) = << << QUOTE >>, << NL >> >>
    /\ Len(ContentFrames(res[1])) = 2

\* C2: the number of content frames written equals the number of elements
\* taken whose content is non-empty, no frame carries an empty payload, and
\* a handler that has finished after the sequence was obtained has taken
\* every element: a skipped element did not end the drain.
EmptyFragmentsFiltered ==
    \A s \in Sessions :
        /\ Len(ContentFrames(res[s])) =
               Cardinality({ i \in 1..pos[s] : HasText(producer[s].chunks[i]) })
        /\ \A i \in 1..Len(res[s].body) :
               res[s].body[i] # DataPrefix \o << QUOTE, QUOTE, NL, NL >>
        /\ spc[s] = "done" /\ producer[s].outcome # "reject"
               => pos[s] = Len(producer[s].chunks)

\* Witness of C2: "a", "", "b", undefined, "c" drained to three frames.
EmptyFragmentsFilteredWitness ==
    /\ producer[1].chunks = FilterExample
    /\ producer[1].outcome = "complete"
    /\ res[1].ended = 1
    /\ res[1].body = << Frame(<< "a" >>), Frame(<< "b" >>), Frame(<< "c" >>) >>

\* The handler of session s has finished on a failure of its producer.
ProducerFailed(s) ==
    spc[s] = "done" /\ producer[s].outcome \in { "throw", "reject" }

\* The handler of session s has finished after its producer completed.
ProducerCompleted(s) == spc[s] = "done" /\ producer[s].outcome = "complete"

\* C3 as claimed: after a producer that completes normally the body is its
\* N frames, the connection is closed, there is no diagnostic frame, and
\* the client, its connection unbroken, ends closed without an error.
CleanClosure ==
    \A s \in Sessions :
        ProducerCompleted(s) =>
            /\ res[s].body = [i \in 1..Len(Fragments(s)) |-> Frame(Fragments(s)[i])]
            /\ res[s].ended = 1
            /\ eventSource[s] = "closed" /\ ~dropped[s] => consoleErrors[s] = 0

\* C4: after a producer that fails having yielded k fragments the body is
\* the k content frames followed by exactly one diagnostic frame, the
\* connection is closed once, and the client ends in its error state: the
\* error event is pending once every message is handled, and a closed
\* EventSource has logged the error.
ErrorClosure ==
    \A s \in Sessions :
        ProducerFailed(s) =>
            LET frags == Fragments(s) IN
            /\ res[s].body =
                   [i \in 1..Len(frags) |-> Frame(frags[i])] \o << Diagnostic >>
            /\ producer[s].outcome = "reject" => res[s].body = << Diagnostic >>
            /\ res[s].ended = 1
            /\ eventSource[s] = "active" /\ dispatched[s] = Len(Events(res[s]))
                   => ErrorEvent(s)
            /\ eventSource[s] = "closed" => consoleErrors[s] = 1

\* Witness of C4: a producer that threw after two fragments, the client
\* having handled both and then the error.
ErrorClosureWitness ==
    /\ ProducerFailed(1)
    /\ producer[1].outcome = "throw"
    /\ Len(Fragments(1)) = 2
    /\ Len(res[1].body) = 3
    /\ dispatched[1] = 2
    /\ eventSource[1] = "closed"
    /\ consoleErrors[1] = 1

\* C6 as claimed: whenever a byte of the body has been written, the three
\* framing headers were in the header block that preceded it.
HeadersBeforeBody ==
    \A s \in Sessions :
        res[s].body # << >> =>
            { ContentType, CacheControl, Connection } \subseteq res[s].wireHeaders

\* C7: a session has displayed an elapsed time exactly if it has handled a
\* frame, it has displayed one value only, and the value is the whole
\* milliseconds between the submit and the handling of its first frame.
ElapsedRecordedOnce ==
    \A s \in Sessions :
        recorded[s] =
            IF dispatched[s] = 0 THEN << >>
            ELSE << (firstAt[s] - timeStart[s]) \div TicksPerMs >>

\* Witness of C7: two frames handled, the first a full millisecond after
\* the submit.
ElapsedRecordedOnceWitness ==
    /\ dispatched[1] = 2
    /\ firstAt[1] - timeStart[1] = TicksPerMs
    /\ recorded[1] = << 1 >>
    /\ elapsedTimeText = ElapsedText(1)

\* The event.data of the frames of session s, from its producer's fragments.
RawPayloads(s) == [i \in 1..Len(Fragments(s)) |-> JSONStringify(Fragments(s)[i])]

\* C8 as claimed: after N events the buffer is the concatenation of the
\* JSON-decoded payloads of the first N frames.
BufferIsDecodedConcat ==
    \A s \in Sessions :
        accumulatedText[s] =
            Concat([i \in 1..dispatched[s] |-> JSONParse(RawPayloads(s)[i])])

\* C8 amended: after N events the buffer is the concatenation of the raw,
\* still JSON-quoted payloads of the first N frames (empty until the first
\* event of the session), and it only ever grows by appending.
BufferIsRawConcat ==
    /\ [](\A s \in Sessions :
            /\ dispatched[s] <= Len(RawPayloads(s))
            /\ accumulatedText[s] =
                   Concat([i \in 1..dispatched[s] |-> RawPayloads(s)[i]]))
    /\ [][\A s \in Sessions :
            /\ Len(accumulatedText'[s]) >= Len(accumulatedText[s])
            /\ SubSeq(accumulatedText'[s], 1, Len(accumulatedText[s]))
                   = accumulatedText[s]]_vars

\* Witness of C8: two events handled, the buffer holding both quoted.
BufferIsRawConcatWitness ==
    /\ dispatched[1] = 2
    /\ accumulatedText[1] = << QUOTE, "a", QUOTE, QUOTE, SPACE, QUOTE >>

\* A fragment JSON.stringify only wraps in quotes.
NeedsNoEscaping(f) == \A i \in 1..Len(f) : f[i] \notin { QUOTE, BACKSLASH, NL }

\* r is text without its leading and trailing whitespace.
IsTrimOf(r, text) ==
    \E i \in 1..(Len(text) + 1) : \E j \in (i - 1)..Len(text) :
        /\ r = SubSeq(text, i, j)
        /\ \A k \in 1..(i - 1) : text[k] \in { SPACE, NL }
        /\ \A k \in (j + 1)..Len(text) : text[k] \in { SPACE, NL }
        /\ r # << >> => r[1] \notin { SPACE, NL } /\ r[Len(r)] \notin { SPACE, NL }

\* C10: when the fragments handled so far need no JSON escaping, the cleanup
\* of the raw buffer of their quoted forms, which is what the container
\* shows, is their concatenation with the surrounding whitespace trimmed.
CleanupRecoversText ==
    \A s \in Solo :
        LET frags == SubSeq(Fragments(s), 1, dispatched[s]) IN
        dispatched[s] > 0 /\ (\A i \in 1..Len(frags) : NeedsNoEscaping(frags[i]))
            => /\ IsTrimOf(cleanText(accumulatedText[s]), Concat(frags))
               /\ container = cleanText(accumulatedText[s])

\* Witness of C10: the raw buffer "Hel""lo, wor""ld" shown as Hello, world.
CleanupRecoversTextWitness ==
    /\ accumulatedText[1] =
           << QUOTE, "H", "e", "l", QUOTE, QUOTE, "l", "o", ",", SPACE, "w",
              "o", "r", QUOTE, QUOTE, "l", "d", QUOTE >>
    /\ container = << "H", "e", "l", "l", "o", ",", SPACE, "w", "o", "r", "l", "d" >>

\* C5: once the handler of a session has started, it eventually calls
\* res.end(), however its producer terminates.
ConnectionEventuallyClosed ==
    \A s \in Sessions : (spc[s] # "idle") ~> (res[s].ended > 0)

\* Witness of C5: a producer of empty fragments only, closed with no frame.
ConnectionEventuallyClosedWitness ==
    /\ producer[1].chunks = << Chunk(<< >>), UndefinedChunk >>
    /\ producer[1].outcome = "complete"
    /\ res[1].ended = 1
    /\ res[1].body = << >>

\* C9: with two sessions running side by side, whatever the interleaving,
\* the buffer of each session is the concatenation of the first payloads
\* its own connection carried and of nothing else, and the body of each
\* connection holds the frames of its own producer's fragments only.
SessionIsolation ==
    \A s \in Sessions :
        /\ dispatched[s] <= Len(RawPayloads(s))
        /\ accumulatedText[s] =
               Concat([i \in 1..dispatched[s] |-> RawPayloads(s)[i]])
        /\ ContentFrames(res[s]) =
               [i \in 1..Len(Fragments(s)) |-> Frame(Fragments(s)[i])]
        /\ \A o \in Sessions \ { s } : \A i \in 1..Len(res[o].body) :
               \A j \in 1..Len(Fragments(s)) :
                   res[o].body[i] # Frame(Fragments(s)[j])

\* Witness of C9: both sessions mid-stream, each having handled its frame.
SessionIsolationWitness ==
    /\ spc[1] = "awaitNext" /\ spc[2] = "awaitNext"
    /\ eventSource[1] = "active" /\ eventSource[2] = "active"
    /\ accumulatedText[1] = << QUOTE, "a", QUOTE >>
    /\ accumulatedText[2] = << QUOTE, "b", QUOTE >>

\* text holds part as a run of consecutive characters.
Contains(text, part) ==
    \E k \in 0..(Len(text) - Len(part)) :
        SubSeq(text, k + 1, k + Len(part)) = part

\* C11 as claimed: once the server has closed the connection and the client
\* has stopped, the loading indicator shown at submit has been removed.
LoadingRemovedOnClose ==
    \A s \in Solo :
        res[s].ended > 0 /\ eventSource[s] = "closed"
            => container # LoadingHTML

\* C12 as claimed: after a producer failure, once the client has taken
\* everything its unbroken connection carried and has stopped, the response
\* container shows the diagnostic sentence.
DiagnosticRendered ==
    \A s \in Solo :
        ProducerFailed(s) /\ eventSource[s] = "closed" /\ ~dropped[s]
            => Contains(container, DiagnosticText)

\* C14 as claimed: once the connection of a session has broken or its client
\* has closed the subscription, the handler takes no further chunk from the
\* producer and writes no further frame.
DrainStopsOnDisconnect ==
    [][\A s \in Sessions :
          dropped[s] \/ eventSource[s] = "closed"
              => pos'[s] = pos[s] /\ res'[s].body = res[s].body]_vars

\* Non-empty fragments session s has been yielded and not yet written.
Unwritten(s) == Len(Fragments(s)) - Len(ContentFrames(res[s]))

\* C15: the frame of a fragment is written, as a write of its own, in the
\* very turn of the loop that took the fragment, and a turn takes one
\* element: no yielded non-empty fragment waits unwritten while the next is
\* requested.
NoBatching ==
    /\ [](\A s \in Sessions : Unwritten(s) <= 1)
    /\ [][\A s \in Sessions :
            /\ pos'[s] \in { pos[s], pos[s] + 1 }
            /\ pos'[s] = pos[s] + 1 =>
                  LET chunk == producer[s].chunks[pos'[s]] IN
                  res'[s].body =
                      IF HasText(chunk)
                      THEN Append(res[s].body, Frame(chunk.content))
                      ELSE res[s].body]_vars

\* Witness of C15: two fragments taken and written as two writes, the loop
\* waiting for a third element.
NoBatchingWitness ==
    /\ spc[1] = "awaitNext"
    /\ pos[1] = 2
    /\ res[1].body = << Frame(<< "a" >>), Frame(<< SPACE >>) >>

\* C16: once onerror has run for a session its EventSource is closed and
\* stays closed, onerror does not run again, and nothing more is appended
\* to the session's buffer, handled as a message or rendered.
TerminatedStaysTerminated ==
    /\ [](\A s \in Sessions : consoleErrors[s] > 0 => eventSource[s] = "closed")
    /\ [][\A s \in Solo :
            consoleErrors[s] > 0 =>
                /\ eventSource'[s] = "closed"
                /\ consoleErrors'[s] = consoleErrors[s]
                /\ accumulatedText'[s] = accumulatedText[s]
                /\ dispatched'[s] = dispatched[s]
                /\ container' = container
                /\ elapsedTimeText' = elapsedTimeText]_vars

\* Witness of C16: onerror ran on a broken connection with a frame still
\* undelivered, and the server has written on since.
TerminatedStaysTerminatedWitness ==
    /\ dropped[1]
    /\ eventSource[1] = "closed"
    /\ consoleErrors[1] = 1
    /\ dispatched[1] = 1
    /\ Len(res[1].body) = 2
    /\ res[1].ended = 1

\* C17: the diagnostic is never handled as a message: no message event
\* carries it, no buffer holds it, and a session displays an elapsed time
\* only if a content frame of a non-empty fragment was handled.
DiagnosticNeverContent ==
    \A s \in Sessions :
        /\ \A i \in 1..Len(Events(res[s])) :
               ~Contains(Events(res[s])[i], DiagnosticText)
        /\ ~Contains(accumulatedText[s], DiagnosticText)
        /\ dispatched[s] <= Len(Fragments(s))
        /\ recorded[s] # << >> => dispatched[s] > 0

\* Witness of C17: a producer that threw before any fragment, the headers
\* set, the client stopped with an empty buffer and no elapsed time.
DiagnosticNeverContentWitness ==
    /\ ProducerFailed(1)
    /\ res[1].body = << Diagnostic >>
    /\ ContentTypeOK(res[1])
    /\ eventSource[1] = "closed"
    /\ ~dropped[1]
    /\ accumulatedText[1] = << >>
    /\ recorded[1] = << >>

\* C18: every request closes its connection exactly once: the handler is
\* done exactly when the response has ended once, no write ever lands on an
\* ended response (also when the producer fails or the client is gone and
\* the writes go nowhere), and an ended response never changes again.
ClosedExactlyOnce ==
    /\ [](\A s \in Solo :
            /\ res[s].ended <= 1
            /\ res[s].lateWrites = 0
            /\ (spc[s] = "done") = (res[s].ended = 1))
    /\ [][\A s \in Solo : res[s].ended > 0 => res'[s] = res[s]]_vars

\* C18 witness: the client went away, the producer failed after a
\* fragment, and the handler still finished with one close, the last
\* thing in the body being the diagnostic.
ClosedExactlyOnceWitness ==
    /\ dropped[1]
    /\ ProducerFailed(1)
    /\ spc[1] = "done"
    /\ res[1].ended = 1
    /\ Len(res[1].body) = 2
    /\ res[1].body[2] = Diagnostic

\* C13: a /normal request gets exactly one body, sent only once the whole
\* output of the producer is materialized or the producer has failed:
\* nothing is on the wire before, and afterwards the body is the complete
\* result on success and the fixed diagnostic on failure, status 200 in
\* both cases, the response ended once.
NormalOneBody ==
    \A s \in Solo :
        /\ spc[s] # "done" =>
               /\ res[s].body = << >>
               /\ ~res[s].headersSent
               /\ res[s].ended = 0
        /\ spc[s] = "done" =>
               /\ pos[s] = Len(producer[s].chunks)
               /\ res[s].body =
                      << IF producer[s].outcome = "complete"
                         THEN Concat(TextsOf(producer[s].chunks))
                         ELSE NormalDiagnosticText >>
               /\ res[s].statusCode = 200
               /\ res[s].ended = 1
               /\ res[s].lateWrites = 0

\* C13 witness: a producer of two fragments was answered with their
\* concatenation in one body.
NormalOneBodyWitness ==
    /\ spc[1] = "done"
    /\ producer[1].outcome = "complete"
    /\ Len(TextsOf(producer[1].chunks)) = 2
    /\ res[1].body = << Concat(TextsOf(producer[1].chunks)) >>
    /\ res[1].ended = 1

\* C19 as claimed: once a later submit has happened, the shared container
\* shows only the loading message or the cleanup of the buffer of the
\* session submitted last, never text of an earlier session still open.
LaterSessionOwnsContainer ==
    \A s \in Sessions :
        lastSubmit = s =>
            container \in { LoadingHTML, cleanText(accumulatedText[s]) }

=============================================================================
